---- MODULE Spec2Model ----
(***************************************************************************)
(* Session / tab registry of SeleniumOrchestrator.                         *)
(*                                                                         *)
(* ProfileService keeps a name -> Profile map.  A Profile owns one         *)
(* SeleniumSession (a nullable WebDriver handle) and one TabService (an    *)
(* ordered tab list plus its own OPEN/CLOSED flag).  The WebDriver itself  *)
(* is the Selenium client library; it is modelled the way the tests mock   *)
(* it: a set of open windows, the focused window, and a record of the      *)
(* commands it received.                                                   *)
(*                                                                         *)
(* Every caller in the repository builds a new SeleniumSession for each    *)
(* Profile it creates (examples/pom_example.py:34, tests/conftest.py:165), *)
(* so a Profile object and its session share one index here.               *)
(***************************************************************************)
EXTENDS Integers, Sequences, FiniteSets, TLC

\* ---------------------------------------------------------------- bounds
\* Profile/session objects the callers construct.
MaxProfiles == 2
\* Window handles one driver assigns (the launch window included) when the
\* whole registry is explored.
MaxHandles == 2
\* Window handles the driver assigns when one session's tabs are explored.
MaxTabHandles == 4
\* The longest timeout of a wait, counted in poll intervals of WebDriverWait.
MaxTimeout == 2

Objects == 1..MaxProfiles
DriverNames == {"s1", "s2"}
TabNames == {"t1", "t2"}
MoreTabNames == {"t1", "t2", "t3"}

\* ------------------------------------------------------------ enumerations
OPEN == "OPEN"
CLOSED == "CLOSED"
ACTIVE == "ACTIVE"
INACTIVE == "INACTIVE"

\* Inputs of the connector: the kind strings a caller may pass, the state of
\* binary_path / remote_url, and what the underlying launch does.
NoKey == "<absent>"
BrowserTypes == {"chrome", "Chrome", "firefox", "remote", "edge", NoKey}
\* The kind strings passed to the factory itself: the table keys, case
\* variants of them, and strings that are neither.
KindStrings ==
    {"chrome", "Chrome", "CHROME", "firefox", "FireFox", "remote", "REMOTE",
     "edge", "Edge", "chromium", ""}
\* options.arguments, as far as a creator reads it.
Options == {"", "--start-maximized"}
BinaryPaths == {"", "missing", "exists"}
RemoteUrls == {"", "http://hub"}
LaunchOutcomes == {"ok", "SessionNotCreatedException", "WebDriverException", "OSError"}
Connections == [browser_type : BrowserTypes, binary_path : BinaryPaths,
                remote_url : RemoteUrls, launch : LaunchOutcomes]

Conn(browser_type, binary_path, remote_url, launch_outcome) ==
    [browser_type |-> browser_type, binary_path |-> binary_path,
     remote_url |-> remote_url, launch |-> launch_outcome]

\* The connection dicts the registry's callers pass: one that launches for
\* each kind, and one for each way a launch can fail.
CallerConnections ==
    { Conn("Chrome", "exists", "", "ok"),
      Conn(NoKey, "exists", "", "ok"),
      Conn("remote", "", "http://hub", "ok"),
      Conn("firefox", "missing", "", "ok"),
      Conn("remote", "", "", "ok"),
      Conn("edge", "exists", "", "ok"),
      Conn("chrome", "exists", "", "WebDriverException") }

VARIABLES profiles, heap, call

vars == <<profiles, heap, call>>

\* ------------------------------------------------------------------ frames
\* The outcome of one method call: the object graph after it, the returned
\* value ("None", "True", "False", "Profile") or "raised" with the exception.
R(o, ret, err) == [o |-> o, ret |-> ret, err |-> err]

Raised(r) == r.ret = "raised"

Cmd(c, h) == [cmd |-> c, h |-> h]

\* --------------------------------------------------------------- WebDriver
\* webdriver.Chrome / Firefox / Remote (...): one window, focused.
driver_launch(o) ==
    [o EXCEPT !.driver = "live", !.windows = {1}, !.current = 1, !.handles = 1]

\* driver.switch_to.new_window(): a new window with a new handle gets focus.
driver_new_window(o) ==
    [o EXCEPT !.windows = @ \cup {o.handles + 1},
              !.current = o.handles + 1,
              !.handles = @ + 1,
              !.cmds = Append(@, Cmd("new_window", o.handles + 1))]

\* driver.switch_to.window(handle): NoSuchWindowException for a closed window.
driver_window(o, h) ==
    IF h \notin o.windows
    THEN R([o EXCEPT !.cmds = Append(@, Cmd("window", h))], "raised", "NoSuchWindowException")
    ELSE R([o EXCEPT !.current = h, !.cmds = Append(@, Cmd("window", h))], "None", "")

\* driver.close(): closes the focused window; no window is focused afterwards.
driver_close(o) ==
    [o EXCEPT !.windows = @ \ {o.current},
              !.current = 0,
              !.cmds = Append(@, Cmd("close", o.current))]

\* driver.quit(): ends the browser and all its windows.
driver_quit(o) ==
    [o EXCEPT !.windows = {}, !.current = 0, !.handles = 0, !.quits = @ + 1,
              !.cmds = Append(@, Cmd("quit", 0))]

\* --------------------------------------------------------------- connector
\* str.lower() on the kind strings of KindStrings and BrowserTypes.
lower(s) ==
    CASE s \in {"Chrome", "CHROME"} -> "chrome"
      [] s \in {"Firefox", "FireFox"} -> "firefox"
      [] s \in {"Remote", "REMOTE"} -> "remote"
      [] s = "Edge" -> "edge"
      [] OTHER -> s

\* connection.get('browser_type', 'chrome')
browser_type_of(connection) ==
    IF connection.browser_type = NoKey THEN "chrome" ELSE connection.browser_type

\* What a DriverCreator method did: the driver it returned ("driver") or the
\* name of the exception that left it, and the calls it made on the webdriver
\* library, in order.
Made(result, webdriver) == [result |-> result, webdriver |-> webdriver]

\* except_clauses without the closing "except Exception".
except_clauses_selenium_only(exc) ==
    CASE exc = "SessionNotCreatedException" -> "BrowserInitializationError"
      [] exc = "WebDriverException" -> "BrowserInitializationError"
      [] OTHER -> exc

\* The except clauses that close every DriverCreator method: what leaves the
\* method when exc is raised inside its try block.  Every error class of
\* utils/exceptions.py derives from Exception, so the last clause catches
\* the typed errors the method raises itself.
except_clauses(exc) ==
    CASE exc = "SessionNotCreatedException" -> "BrowserInitializationError"
      [] exc = "WebDriverException" -> "BrowserInitializationError"
      [] OTHER -> "BrowserInitializationError"

\* webdriver.Chrome / Firefox / Remote (...) inside the try block: one call
\* of the constructor ctor, which returns a driver or raises.
launch(ctor, connection) ==
    Made(IF connection.launch = "ok" THEN "driver" ELSE except_clauses(connection.launch),
         <<ctor>>)

\* create_chrome_driver with the launch moved in front of the checks of
\* binary_path.
create_chrome_driver_launches_first(options, connection) ==
    LET m == launch("webdriver.Chrome", connection) IN
    IF connection.binary_path = ""
    THEN Made(except_clauses("BrowserInitializationError"), m.webdriver)
    ELSE IF connection.binary_path = "missing"
    THEN Made(except_clauses("DriverNotFoundError"), m.webdriver)
    ELSE m

create_chrome_driver(options, connection) ==
    IF connection.binary_path = ""
    THEN Made(except_clauses("BrowserInitializationError"), <<>>)
    ELSE IF connection.binary_path = "missing"
    THEN Made(except_clauses("DriverNotFoundError"), <<>>)
    ELSE launch("webdriver.Chrome", connection)

create_firefox_driver(options, connection) ==
    IF connection.binary_path = ""
    THEN Made(except_clauses("BrowserInitializationError"), <<>>)
    ELSE IF connection.binary_path = "missing"
    THEN Made(except_clauses("DriverNotFoundError"), <<>>)
    ELSE LET m == launch("webdriver.Firefox", connection) IN
         IF m.result = "driver" /\ options = "--start-maximized"
         THEN Made("driver", Append(m.webdriver, "maximize_window"))
         ELSE m

create_remote_driver(options, connection) ==
    IF connection.remote_url = ""
    THEN Made(except_clauses("BrowserConfigError"), <<>>)
    ELSE launch("webdriver.Remote", connection)

\* BrowserFactory.driver_map
driver_map ==
    [chrome |-> "create_chrome_driver", firefox |-> "create_firefox_driver",
     remote |-> "create_remote_driver"]

\* creator(options, connection) for a value of driver_map.
creator(method, options, connection) ==
    CASE method = "create_chrome_driver" -> create_chrome_driver(options, connection)
      [] method = "create_firefox_driver" -> create_firefox_driver(options, connection)
      [] method = "create_remote_driver" -> create_remote_driver(options, connection)

\* What create_browser did: the creator's outcome and the creators it
\* invoked, each with the arguments it received.
Dispatched(m, invoked) ==
    [result |-> m.result, webdriver |-> m.webdriver, invoked |-> invoked]

Invoked(method, options, connection) ==
    [creator |-> method, options |-> options, connection |-> connection]

\* create_browser without "browser_type = browser_type.lower()".
create_browser_case_sensitive(browser_type, options, connection) ==
    IF browser_type \in DOMAIN driver_map
    THEN Dispatched(creator(driver_map[browser_type], options, connection),
                    <<Invoked(driver_map[browser_type], options, connection)>>)
    ELSE Dispatched(Made("BrowserInitializationError", <<>>), <<>>)

create_browser(browser_type, options, connection) ==
    LET kind == lower(browser_type) IN
    IF kind \in DOMAIN driver_map
    THEN Dispatched(creator(driver_map[kind], options, connection),
                    <<Invoked(driver_map[kind], options, connection)>>)
    ELSE Dispatched(Made("BrowserInitializationError", <<>>), <<>>)

\* --------------------------------------------------------- SeleniumSession
\* The options object reaches the driver constructor only; the registry's
\* callers pass options without arguments.
Session_open(o, browser_type, connection) ==
    LET d == create_browser(browser_type, "", connection).result IN
    IF d = "driver" THEN R(driver_launch(o), "None", "") ELSE R(o, "raised", d)

\* Session_close without "self.driver = None".
Session_close_keeps_handle(o) ==
    IF o.driver = "live" THEN R(driver_quit(o), "None", "") ELSE R(o, "None", "")

Session_close(o) ==
    IF o.driver = "live"
    THEN R([driver_quit(o) EXCEPT !.driver = "None"], "None", "")
    ELSE R(o, "None", "")

\* Returns the new handle, which the caller reads as r.o.current.
Session_new_tab(o) ==
    IF o.driver = "None" THEN R(o, "raised", "WebDriverException")
    ELSE R(driver_new_window(o), "None", "")

Session_switch_tab(o, h) ==
    IF o.driver = "live" THEN driver_window(o, h) ELSE R(o, "None", "")

Session_close_tab(o, h) ==
    IF o.driver = "live"
    THEN LET r == driver_window(o, h) IN
         IF Raised(r) THEN r ELSE R(driver_close(r.o), "None", "")
    ELSE R(o, "None", "")

Session_execute_cdp(o) ==
    IF o.driver = "None" THEN R(o, "raised", "WebDriverException")
    ELSE R([o EXCEPT !.cmds = Append(@, Cmd("execute_cdp_cmd", 0))], "None", "")

\* --------------------------------------------------------------------- Tab
Tab(name, window_handle, status) ==
    [name |-> name, window_handle |-> window_handle, status |-> status]

update_status(t, new_status) == [t EXCEPT !.status = new_status]

\* -------------------------------------------------------------- TabService
\* Index of the first tab called name, 0 when there is none.
find(tabs, name) ==
    IF \E i \in DOMAIN tabs : tabs[i].name = name
    THEN CHOOSE i \in DOMAIN tabs :
            /\ tabs[i].name = name
            /\ \A j \in DOMAIN tabs : tabs[j].name = name => i <= j
    ELSE 0

\* list.remove of the tab at index i.
remove(tabs, i) ==
    [k \in 1..(Len(tabs) - 1) |-> IF k < i THEN tabs[k] ELSE tabs[k + 1]]

TabService_start(o, browser_type, connection, first_tab_name) ==
    LET r1 == Session_open(o, browser_type, connection) IN
    IF Raised(r1) THEN r1 ELSE
    LET r2 == Session_new_tab(r1.o) IN
    IF Raised(r2) THEN r2 ELSE
    R([r2.o EXCEPT !.tabs = Append(@, Tab(first_tab_name, r2.o.current, ACTIVE))], "None", "")

\* TabService_new_tab without the loop that deactivates the existing tabs.
TabService_new_tab_no_deactivate(o, name) ==
    IF o.driver_status = CLOSED THEN R(o, "False", "") ELSE
    LET r == Session_new_tab(o) IN
    IF Raised(r) THEN r ELSE
    R([r.o EXCEPT !.tabs = Append(@, Tab(name, r.o.current, ACTIVE))], "True", "")

TabService_new_tab(o, name) ==
    IF o.driver_status = CLOSED THEN R(o, "False", "") ELSE
    LET r == Session_new_tab(o) IN
    IF Raised(r) THEN r ELSE
    R([r.o EXCEPT !.tabs = Append([k \in DOMAIN @ |-> update_status(@[k], INACTIVE)],
                                  Tab(name, r.o.current, ACTIVE))],
      "True", "")

\* TabService_switch_to that activates the tab and leaves the others alone.
TabService_switch_to_only_activates(o, name) ==
    LET i == find(o.tabs, name) IN
    IF i = 0 THEN R(o, "None", "") ELSE
    LET r == Session_switch_tab(o, o.tabs[i].window_handle) IN
    IF Raised(r) THEN r ELSE
    R([r.o EXCEPT !.tabs = [k \in DOMAIN @ |->
            IF @[k].name = name THEN update_status(@[k], ACTIVE) ELSE @[k]]],
      "None", "")

TabService_switch_to(o, name) ==
    LET i == find(o.tabs, name) IN
    IF i = 0 THEN R(o, "None", "") ELSE
    LET r == Session_switch_tab(o, o.tabs[i].window_handle) IN
    IF Raised(r) THEN r ELSE
    R([r.o EXCEPT !.tabs = [k \in DOMAIN @ |->
            update_status(@[k], IF @[k].name = name THEN ACTIVE ELSE INACTIVE)]],
      "None", "")

\* TabService_close_all without "self.driver_status = CLOSED".
TabService_close_all_keeps_status(o) ==
    LET r == Session_close(o) IN
    R([r.o EXCEPT !.tabs = <<>>], "None", "")

TabService_close_all(o) ==
    LET r == Session_close(o) IN
    R([r.o EXCEPT !.tabs = <<>>, !.driver_status = CLOSED], "None", "")

\* TabService_close_tab that treats an unknown name as the last tab.
TabService_close_tab_unknown_closes_all(o, name) ==
    LET i == find(o.tabs, name) IN
    IF i = 0 THEN TabService_close_all(o) ELSE
    IF Len(o.tabs) = 1 THEN TabService_close_all(o) ELSE
    LET r == Session_close_tab(o, o.tabs[i].window_handle) IN
    IF Raised(r) THEN r ELSE
    LET o2 == [r.o EXCEPT !.tabs = remove(@, i)] IN
    TabService_switch_to(o2, o2.tabs[1].name)

TabService_close_tab(o, name) ==
    LET i == find(o.tabs, name) IN
    IF i = 0 THEN R(o, "None", "") ELSE
    IF Len(o.tabs) = 1 THEN TabService_close_all(o) ELSE
    LET r == Session_close_tab(o, o.tabs[i].window_handle) IN
    IF Raised(r) THEN r ELSE
    LET o2 == [r.o EXCEPT !.tabs = remove(@, i)] IN
    TabService_switch_to(o2, o2.tabs[1].name)

\* TabService_delete_cookies without the CLOSED guard.
TabService_delete_cookies_unguarded(o) == Session_execute_cdp(o)

TabService_delete_cookies(o) ==
    IF o.driver_status = CLOSED THEN R(o, "None", "") ELSE Session_execute_cdp(o)

\* ----------------------------------------------------------------- Locator
\* The values of selenium's By.ID, By.XPATH, By.LINK_TEXT,
\* By.PARTIAL_LINK_TEXT, By.NAME, By.TAG_NAME, By.CLASS_NAME, By.CSS_SELECTOR.
VALID_STRATEGIES ==
    {"id", "xpath", "link text", "partial link text", "name", "tag name",
     "class name", "css selector"}

\* The strategies and values callers pass to Locator(by, value).
Strategies == VALID_STRATEGIES \cup {"ID", "css", "invalid_strategy", ""}
LocatorValues == {"", "username", "//div[@class='container']"}

\* The outcome of Locator(by, value): the new object, or ValueError and no
\* object.
Constructed(ret, err, self) == [ret |-> ret, err |-> err, self |-> self]

NoLocator == [by |-> "", value |-> "", exists |-> FALSE]

\* Locator without the check of VALID_STRATEGIES.
Locator_unchecked(by, value) ==
    Constructed("Locator", "", [by |-> by, value |-> value, exists |-> TRUE])

Locator(by, value) ==
    IF by \notin VALID_STRATEGIES
    THEN Constructed("raised", "ValueError", NoLocator)
    ELSE Constructed("Locator", "", [by |-> by, value |-> value, exists |-> TRUE])

as_tuple(self) == <<self.by, self.value>>

\* --------------------------------------------------------- ElementResolver
\* The string constants of WaitCondition.
WaitConditions ==
    {"element_to_be_clickable", "presence_of_element_located",
     "presence_of_all_elements_located", "visibility_of_element_located",
     "visibility_of_all_elements_located", "element_located_selection_state_to_be",
     "element_selection_state_to_be", "frame_to_be_available_and_switch_to_it",
     "invisibility_of_element", "invisibility_of_element_located", "staleness_of",
     "text_to_be_present_in_element", "text_to_be_present_in_element_value",
     "title_contains", "title_is", "url_contains", "url_matches", "url_to_be",
     "visibility_of"}

\* ec_map: each constant names the expected_conditions function of its name.
ec_map == [w \in WaitConditions |-> w]

\* ec_map.get(condition, EC.presence_of_element_located)
ec_func(condition) ==
    IF condition \in DOMAIN ec_map THEN ec_map[condition] ELSE "presence_of_element_located"

\* What one query of the document shows for a locator: no match, a match
\* that is present only, visible but disabled, visible and enabled; or the
\* query itself fails in the driver.
Observations == {"absent", "present", "visible", "clickable", "crash"}

\* A root element handed to a scoped call, with the number of matches of the
\* locator among its descendants; NoRoot is root_element=None.
NoRoot == [given |-> FALSE, matches |-> 0]
Root(k) == [given |-> TRUE, matches |-> k]
RootElements == {NoRoot, Root(0), Root(1), Root(2)}

\* The elements a query returns: those of the document are 1, 2, ... and
\* those under the root 101, 102, ...
Elements(first, k) == [i \in 1..k |-> first + i]

\* The value of one evaluation of a wait predicate.
Value(kind, err, found) == [kind |-> kind, err |-> err, found |-> found]

\* ec_func((by, value))(driver): the predicates that take a locator and that
\* ElementService and the page objects use.  matches is the number of
\* elements the locator matches whenever it matches at all.
expected_condition(ec, obs, matches) ==
    CASE obs = "crash" -> Value("raised", "WebDriverException", <<>>)
      [] obs # "crash" /\ ec = "presence_of_all_elements_located" ->
            IF obs = "absent" THEN Value("false", "", <<>>)
            ELSE Value("value", "", Elements(0, matches))
      [] obs = "absent" /\ ec # "presence_of_all_elements_located" ->
            Value("raised", "NoSuchElementException", <<>>)
      [] obs \in {"present", "visible", "clickable"} /\ ec = "presence_of_element_located" ->
            Value("value", "", Elements(0, 1))
      [] obs \in {"present", "visible", "clickable"} /\ ec = "visibility_of_element_located" ->
            IF obs = "present" THEN Value("false", "", <<>>)
            ELSE Value("value", "", Elements(0, 1))
      [] obs \in {"present", "visible", "clickable"} /\ ec = "element_to_be_clickable" ->
            IF obs = "clickable" THEN Value("value", "", Elements(0, 1))
            ELSE Value("false", "", <<>>)

\* A call of the resolver or of ElementService in progress: its arguments,
\* where it stands (pc), the polls made so far (clock), the driver commands
\* it issued and what resolution found.
Resolving(op, p, locator, condition, timeout, root_handle, root_element, scroll, matches) ==
    [op |-> op, p |-> p, name |-> "", ret |-> "pending", err |-> "", cmds |-> <<>>,
     pc |-> "start", clock |-> 0, obs |-> "", found |-> <<>>,
     locator |-> locator, condition |-> condition, timeout |-> timeout,
     root_handle |-> root_handle, root_element |-> root_element,
     scroll_into_view |-> scroll, matches |-> matches]

Return(c, found) == [c EXCEPT !.pc = "returned", !.found = found]

Raise(c, err) == [c EXCEPT !.pc = "raised", !.err = err]

\* One iteration of WebDriverWait(driver, timeout).until(method): evaluate
\* the predicate, return a truthy value, let any exception but the ignored
\* NoSuchElementException through, sleep one interval, and raise
\* TimeoutException once the clock has passed the deadline.
until(c, ec, obs) ==
    LET v == expected_condition(ec, obs, c.matches)
        c1 == [c EXCEPT !.cmds = Append(@, Cmd(ec, c.clock)), !.obs = obs]
    IN
    IF v.kind = "value" THEN Return(c1, v.found)
    ELSE IF v.kind = "raised" /\ v.err # "NoSuchElementException" THEN Raise(c1, v.err)
    ELSE IF c.clock + 1 > c.timeout THEN Raise(c1, "TimeoutException")
    ELSE [c1 EXCEPT !.pc = "polling", !.clock = @ + 1]

\* find_element without its except clause.
except_TimeoutException_missing(c) == c

\* "except TimeoutException: return None" (find_element) or "return []"
\* (find_elements).
except_TimeoutException(c) ==
    IF c.pc = "raised" /\ c.err = "TimeoutException"
    THEN [c EXCEPT !.pc = "returned", !.err = "", !.found = <<>>]
    ELSE c

\* SeleniumSession.find_element, from its entry (c.pc = "start") or from the
\* poll it is waiting in (c.pc = "polling"), up to its return, its raise or
\* its next sleep.
Session_find_element(o, c, obs) ==
    IF o.driver = "None" THEN Raise(c, "WebDriverException")
    ELSE IF c.root_element.given
    THEN LET c1 == [c EXCEPT !.cmds = Append(@, Cmd("root_element.find_element", 0)),
                             !.obs = obs] IN
         IF c.root_element.matches = 0
         THEN Raise(c1, "NoSuchElementException")
         ELSE Return(c1, Elements(100, 1))
    ELSE except_TimeoutException(until(c, ec_func(c.condition), obs))

\* "for el in elements: driver.execute_script(scrollIntoView, el)", each
\* WebDriverException swallowed.
scroll_into_view(c) ==
    IF c.pc = "returned" /\ c.scroll_into_view
    THEN [c EXCEPT !.cmds = @ \o [i \in DOMAIN c.found |-> Cmd("scrollIntoView", c.found[i])]]
    ELSE c

Session_find_elements(o, c, obs) ==
    IF o.driver = "None" THEN Raise(c, "WebDriverException")
    ELSE IF c.root_element.given
    THEN scroll_into_view(
            Return([c EXCEPT !.cmds = Append(@, Cmd("root_element.find_elements", 0)),
                             !.obs = obs],
                   Elements(100, c.root_element.matches)))
    ELSE except_TimeoutException(
            scroll_into_view(until(c, "presence_of_all_elements_located", obs)))

\* ---------------------------------------------------------- ElementService
ElementServiceCalls == {"click", "send_keys", "clear"}

\* The condition click, send_keys and clear hand to _locate.
ElementService_condition(op) ==
    IF op = "click" THEN "element_to_be_clickable" ELSE "presence_of_element_located"

\* ElementService_act without "if el:".
ElementService_act_unguarded(c) ==
    IF c.pc = "returned"
    THEN [c EXCEPT !.cmds = Append(@, Cmd(c.op, IF c.found = <<>> THEN 0 ELSE c.found[1]))]
    ELSE c

\* "if el: el.click()" / "el.send_keys(text)" / "el.clear()" once _locate
\* has returned.
ElementService_act(c) ==
    IF c.pc = "returned" /\ c.found # <<>>
    THEN [c EXCEPT !.cmds = Append(@, Cmd(c.op, c.found[1]))]
    ELSE c

\* What the caller receives once the call has returned or raised.
Completed(c) ==
    IF c.pc = "raised" THEN [c EXCEPT !.ret = "raised"]
    ELSE IF c.pc = "returned"
    THEN [c EXCEPT !.ret = CASE c.op = "find_element" ->
                                    IF c.found = <<>> THEN "None" ELSE "WebElement"
                             [] c.op = "find_elements" -> "list"
                             [] OTHER -> "None"]
    ELSE c

\* ----------------------------------------------------------------- Profile
\* A session object no Profile was built on: SeleniumSession.__init__ and
\* TabService.__init__ defaults.
NoProfile ==
    [constructed |-> FALSE, driver_name |-> "", profile_status |-> OPEN, tabs |-> <<>>,
     driver_status |-> OPEN, driver |-> "None", windows |-> {}, current |-> 0,
     handles |-> 0, quits |-> 0, cmds |-> <<>>, script |-> 0]

\* Profile_init that swallows what tab_service.start raises.
Profile_init_swallows(o, driver_name, tab_name, connection) ==
    LET r == TabService_start([o EXCEPT !.driver_name = driver_name, !.profile_status = OPEN],
                              browser_type_of(connection), connection, tab_name) IN
    R([r.o EXCEPT !.constructed = TRUE], "Profile", "")

Profile_init(o, driver_name, tab_name, connection) ==
    LET r == TabService_start([o EXCEPT !.driver_name = driver_name, !.profile_status = OPEN],
                              browser_type_of(connection), connection, tab_name) IN
    IF Raised(r) THEN r ELSE R([r.o EXCEPT !.constructed = TRUE], "Profile", "")

Profile_close(o) ==
    LET r == Session_close(o) IN
    R([r.o EXCEPT !.profile_status = CLOSED], "None", "")

\* ------------------------------------------------------------------ state
\* profiles : ProfileService.profiles, 0 for a name that is not a key.
\* heap     : the Profile objects with their TabService, SeleniumSession and
\*            driver, in the order the callers constructed them.
\* call     : the latest call made by a caller, what it returned and the
\*            commands the driver received during it.
NoCall == [op |-> "", p |-> 0, name |-> "", ret |-> "None", err |-> "", cmds |-> <<>>]

Called(op, p, name, ret, err, cmds) ==
    [op |-> op, p |-> p, name |-> name, ret |-> ret, err |-> err, cmds |-> cmds]

\* The session object a caller constructs next, 0 when the bound is reached.
Fresh ==
    IF \E p \in Objects : ~heap[p].constructed
    THEN CHOOSE p \in Objects :
            ~heap[p].constructed /\ \A q \in Objects : ~heap[q].constructed => p <= q
    ELSE 0

Init ==
    /\ profiles = [n \in DriverNames |-> 0]
    /\ heap = [p \in Objects |-> NoProfile]
    /\ call = NoCall

Reset(o) == [o EXCEPT !.cmds = <<>>]

\* The end-to-end scenario of the specification, as calls on one Profile.
ScenarioSteps ==
    << <<"start", "t1">>, <<"new_tab", "t2">>, <<"switch_to", "t1">>,
       <<"close_tab", "t2">>, <<"close_tab", "t1">> >>

\* script counts how many scenario steps the calls made on an object so far
\* are, exactly and from its construction; 0 once they are anything else.
Follow(script, op, name) ==
    IF /\ script < Len(ScenarioSteps)
       /\ (op = "start" => script = 0)
       /\ (op # "start" => script > 0)
       /\ ScenarioSteps[script + 1] = <<op, name>>
    THEN script + 1 ELSE 0

\* A caller invokes a method on object p: r is the method's outcome.
Invoke(p, op, name, r) ==
    /\ heap' = [heap EXCEPT ![p] = [Reset(r.o) EXCEPT
                                        !.script = Follow(heap[p].script, op, name)]]
    /\ call' = Called(op, p, name, r.ret, r.err, r.o.cmds)

\* ---------------------------------------------------------- ProfileService
\* NewProfile without the lookup of driver_name: it always builds a Profile.
NewProfile_always_builds(driver_name, tab_name, session, connection) ==
    /\ session = Fresh
    /\ LET r == Profile_init(NoProfile, driver_name, tab_name, connection) IN
       /\ ~Raised(r)
       /\ heap' = [heap EXCEPT ![session] =
                        [Reset(r.o) EXCEPT !.script = Follow(0, "start", tab_name)]]
       /\ profiles' = [profiles EXCEPT ![driver_name] = session]
       /\ call' = Called("new_profile", session, driver_name, "Profile", "", r.o.cmds)

NewProfile(driver_name, tab_name, session, connection) ==
    IF profiles[driver_name] # 0
    THEN /\ call' = Called("new_profile", profiles[driver_name], driver_name, "Profile", "", <<>>)
         /\ UNCHANGED <<profiles, heap>>
    ELSE /\ session = Fresh
         /\ LET r == Profile_init(NoProfile, driver_name, tab_name, connection) IN
            IF Raised(r)
            THEN /\ call' = Called("new_profile", 0, driver_name, "raised", r.err, r.o.cmds)
                 /\ UNCHANGED <<profiles, heap>>
            ELSE /\ heap' = [heap EXCEPT ![session] =
                                [Reset(r.o) EXCEPT !.script = Follow(0, "start", tab_name)]]
                 /\ profiles' = [profiles EXCEPT ![driver_name] = session]
                 /\ call' = Called("new_profile", session, driver_name, "Profile", "", r.o.cmds)

\* RemoveProfile without "del self.profiles[driver_name]".
RemoveProfile_keeps_entry(driver_name) ==
    LET p == profiles[driver_name] IN
    IF p # 0
    THEN /\ Invoke(p, "remove_profile", driver_name, Profile_close(heap[p]))
         /\ UNCHANGED profiles
    ELSE /\ call' = Called("remove_profile", 0, driver_name, "None", "", <<>>)
         /\ UNCHANGED <<profiles, heap>>

RemoveProfile(driver_name) ==
    LET p == profiles[driver_name] IN
    IF p # 0
    THEN /\ Invoke(p, "remove_profile", driver_name, Profile_close(heap[p]))
         /\ profiles' = [profiles EXCEPT ![driver_name] = 0]
    ELSE /\ call' = Called("remove_profile", 0, driver_name, "None", "", <<>>)
         /\ UNCHANGED <<profiles, heap>>

\* GetProfile that answers None for a Profile whose TabService is CLOSED.
GetProfile_hides_closed(driver_name) ==
    /\ call' = Called("get_profile", profiles[driver_name], driver_name,
                      IF profiles[driver_name] # 0
                         /\ heap[profiles[driver_name]].driver_status = OPEN
                      THEN "Profile" ELSE "None", "", <<>>)
    /\ UNCHANGED <<profiles, heap>>

GetProfile(driver_name) ==
    /\ call' = Called("get_profile", profiles[driver_name], driver_name,
                      IF profiles[driver_name] # 0 THEN "Profile" ELSE "None", "", <<>>)
    /\ UNCHANGED <<profiles, heap>>

\* ------------------------------------- calls on a Profile a caller holds
ProfileClose(p) ==
    /\ heap[p].constructed
    /\ Invoke(p, "close", "", Profile_close(heap[p]))
    /\ UNCHANGED profiles

NewTab(p, name, limit) ==
    /\ heap[p].constructed
    /\ heap[p].handles < limit
    /\ Invoke(p, "new_tab", name, TabService_new_tab(heap[p], name))
    /\ UNCHANGED profiles

SwitchTo(p, name) ==
    /\ heap[p].constructed
    /\ Invoke(p, "switch_to", name, TabService_switch_to(heap[p], name))
    /\ UNCHANGED profiles

CloseTab(p, name) ==
    /\ heap[p].constructed
    /\ Invoke(p, "close_tab", name, TabService_close_tab(heap[p], name))
    /\ UNCHANGED profiles

CloseAll(p) ==
    /\ heap[p].constructed
    /\ Invoke(p, "close_all", "", TabService_close_all(heap[p]))
    /\ UNCHANGED profiles

DeleteCookies(p) ==
    /\ heap[p].constructed
    /\ Invoke(p, "delete_cookies", "", TabService_delete_cookies(heap[p]))
    /\ UNCHANGED profiles

\* The registry and the Profiles it built, each Profile with the tabs "t1"
\* (its first) and "t2".
Next ==
    \/ \E n \in DriverNames, s \in Objects, c \in CallerConnections :
            NewProfile(n, "t1", s, c)
    \/ \E n \in DriverNames : RemoveProfile(n)
    \/ \E n \in DriverNames : GetProfile(n)
    \/ \E p \in Objects : ProfileClose(p)
    \/ \E p \in Objects : NewTab(p, "t2", MaxHandles)
    \/ \E p \in Objects, t \in TabNames : SwitchTo(p, t)
    \/ \E p \in Objects, t \in TabNames : CloseTab(p, t)
    \/ \E p \in Objects : CloseAll(p)
    \/ \E p \in Objects : DeleteCookies(p)

Spec == Init /\ [][Next]_vars

\* One session and the calls of its TabService alone: start (made by the
\* Profile the registry builds for "s1"), new_tab, switch_to, close_tab,
\* close_all and delete_cookies.
NextTabs ==
    \/ \E t \in MoreTabNames, c \in CallerConnections : NewProfile("s1", t, 1, c)
    \/ \E t \in MoreTabNames : NewTab(1, t, MaxTabHandles)
    \/ \E t \in MoreTabNames : SwitchTo(1, t)
    \/ \E t \in MoreTabNames : CloseTab(1, t)
    \/ CloseAll(1)
    \/ DeleteCookies(1)

SpecTabs == Init /\ [][NextTabs]_vars

\* --------------------------------------------------------------- Elements
ResolverCalls == {"find_element", "find_elements"} \cup ElementServiceCalls

\* No call is waiting in a poll loop: the caller is free to make a call.
Idle == ~(call.op \in ResolverCalls /\ call.pc = "polling")

\* The conditions callers hand to find_element: three constants of
\* WaitCondition and a string that is none.
CallerConditions ==
    {"presence_of_element_located", "visibility_of_element_located",
     "element_to_be_clickable", "clickable"}

\* find_element's default timeout (10 s), here the longest wait explored.
DefaultTimeout == MaxTimeout

\* The call c on object p runs up to its return, its raise or its next
\* sleep, with obs what the document shows now.
Step(p, c, obs) ==
    LET r == IF c.op = "find_elements"
             THEN Session_find_elements(heap[p], c, obs)
             ELSE Session_find_element(heap[p], c, obs)
    IN
    call' = Completed(IF c.op \in ElementServiceCalls THEN ElementService_act(r) ELSE r)

\* Locator(by, value) and, when it exists, as_tuple() of the new object.
MakeLocator(by, value) ==
    /\ Idle
    /\ LET l == Locator(by, value) IN
       call' = [op |-> "Locator", p |-> 0, name |-> "", ret |-> l.ret, err |-> l.err,
                cmds |-> <<>>, by |-> by, value |-> value, self |-> l.self,
                as_tuple |-> IF l.self.exists THEN as_tuple(l.self) ELSE <<>>]
    /\ UNCHANGED <<profiles, heap>>

\* session.find_element(Locator(by, value), timeout, condition, root_element)
FindElement(p, by, value, timeout, condition, root_element, obs) ==
    /\ Idle
    /\ heap[p].constructed
    /\ LET l == Locator(by, value) IN
       /\ ~Raised(l)
       /\ Step(p, Resolving("find_element", p, as_tuple(l.self), condition, timeout,
                            0, root_element, FALSE, 1), obs)
    /\ UNCHANGED <<profiles, heap>>

\* session.find_elements(Locator(by, value), timeout, scroll_into_view,
\* root_element)
FindElements(p, by, value, timeout, scroll, root_element, obs, matches) ==
    /\ Idle
    /\ heap[p].constructed
    /\ LET l == Locator(by, value) IN
       /\ ~Raised(l)
       /\ Step(p, Resolving("find_elements", p, as_tuple(l.self), "", timeout,
                            0, root_element, scroll, matches), obs)
    /\ UNCHANGED <<profiles, heap>>

\* ElementService.click / send_keys / clear (locator, root_handle,
\* root_element): _locate switches to root_handle when one is given and
\* resolves with the method's condition and the default timeout.
ElementCall(op, p, by, value, root_handle, root_element, obs) ==
    /\ Idle
    /\ heap[p].constructed
    /\ LET l == Locator(by, value)
           s == IF root_handle # 0
                THEN Session_switch_tab(heap[p], root_handle)
                ELSE R(heap[p], "None", "")
           c == [Resolving(op, p, as_tuple(l.self), ElementService_condition(op),
                           DefaultTimeout, root_handle, root_element, FALSE, 1)
                   EXCEPT !.cmds = s.o.cmds]
       IN
       /\ ~Raised(l)
       /\ heap' = [heap EXCEPT ![p] = Reset(s.o)]
       /\ IF Raised(s) THEN call' = Completed(Raise(c, s.err)) ELSE Step(p, c, obs)
    /\ UNCHANGED profiles

Click(p, by, value, root_handle, root_element, obs) ==
    ElementCall("click", p, by, value, root_handle, root_element, obs)

SendKeys(p, by, value, root_handle, root_element, obs) ==
    ElementCall("send_keys", p, by, value, root_handle, root_element, obs)

Clear(p, by, value, root_handle, root_element, obs) ==
    ElementCall("clear", p, by, value, root_handle, root_element, obs)

\* The wait of the call in progress wakes up and polls again.
Poll(obs) ==
    /\ ~Idle
    /\ Step(call.p, call, obs)
    /\ UNCHANGED <<profiles, heap>>

\* One session, opened by the Profile the registry builds for "s1" and closed
\* by close_all, with the calls of the resolver and of ElementService on it.
NextElements ==
    \/ \E c \in CallerConnections : Idle /\ NewProfile("s1", "t1", 1, c)
    \/ Idle /\ CloseAll(1)
    \/ \E by \in Strategies, v \in LocatorValues : MakeLocator(by, v)
    \/ \E by \in {"css selector", "css"}, t \in 0..MaxTimeout, w \in CallerConditions,
          r \in RootElements, obs \in Observations :
            FindElement(1, by, "username", t, w, r, obs)
    \/ \E by \in {"css selector", "css"}, t \in 0..MaxTimeout, sc \in BOOLEAN,
          r \in RootElements, obs \in Observations, m \in 1..2 :
            FindElements(1, by, "username", t, sc, r, obs, m)
    \/ \E by \in {"id", "ID"}, h \in 0..MaxHandles, r \in RootElements,
          obs \in Observations :
            Click(1, by, "username", h, r, obs)
    \/ \E by \in {"id", "ID"}, h \in 0..MaxHandles, r \in RootElements,
          obs \in Observations :
            SendKeys(1, by, "username", h, r, obs)
    \/ \E by \in {"id", "ID"}, h \in 0..MaxHandles, r \in RootElements,
          obs \in Observations :
            Clear(1, by, "username", h, r, obs)
    \/ \E obs \in Observations : Poll(obs)

SpecElements == Init /\ [][NextElements]_vars

\* The poll loop of a wait is never abandoned: the thread that sleeps in it
\* wakes up again.
SpecElementsFair == SpecElements /\ WF_vars(\E obs \in Observations : Poll(obs))

\* One session with tabs of distinct names, and ElementService calls on it
\* that may name the window to look in (root_handle).
NextFocus ==
    \/ \E c \in CallerConnections : Idle /\ NewProfile("s1", "t1", 1, c)
    \/ \E t \in TabNames :
            Idle /\ find(heap[1].tabs, t) = 0 /\ NewTab(1, t, MaxTabHandles)
    \/ \E t \in TabNames : Idle /\ SwitchTo(1, t)
    \/ \E t \in TabNames : Idle /\ CloseTab(1, t)
    \/ \E h \in 0..MaxTabHandles, obs \in {"absent", "clickable"} :
            Click(1, "id", "username", h, NoRoot, obs)
    \/ \E h \in 0..MaxTabHandles, obs \in {"absent", "clickable"} :
            SendKeys(1, "id", "username", h, NoRoot, obs)
    \/ \E h \in 0..MaxTabHandles, obs \in {"absent", "clickable"} :
            Clear(1, "id", "username", h, NoRoot, obs)
    \/ \E obs \in {"absent", "clickable"} : Poll(obs)

SpecFocus == Init /\ [][NextFocus]_vars

\* ------------------------------------------------- legacy SeleniumProfile
\* core/selenium/profile.py: one object holds the driver, the tab list and
\* one status (driver_status here); the driver handle is never set to None.
\* launched is what BrowserFactory.create_browser did: returned a driver or
\* raised.
SeleniumProfile_init(o, driver_name, tab_name, launched) ==
    IF ~launched THEN R(o, "raised", "BrowserInitializationError") ELSE
    LET o1 == driver_launch([o EXCEPT !.driver_name = driver_name,
                                      !.driver_status = OPEN, !.tabs = <<>>]) IN
    R([o1 EXCEPT !.tabs = Append(@, Tab(tab_name, o1.current, ACTIVE)),
                 !.constructed = TRUE], "Profile", "")

SeleniumProfile_close_driver(o) ==
    IF o.driver_status # CLOSED
    THEN R(driver_quit([o EXCEPT !.driver_status = CLOSED]), "None", "")
    ELSE R(o, "None", "")

SeleniumProfile_switch_to_tab(o, name) ==
    IF o.driver_status # CLOSED
    THEN LET i == find(o.tabs, name) IN
         IF i # 0 THEN driver_window(o, o.tabs[i].window_handle) ELSE R(o, "None", "")
    ELSE R(o, "None", "")

\* driver.close() on a driver that has quit raises.
SeleniumProfile_close_tab(o, name) ==
    LET i == find(o.tabs, name) IN
    IF i = 0 THEN R(o, "None", "") ELSE
    IF Len(o.tabs) - 1 = 0 THEN SeleniumProfile_close_driver(o) ELSE
    LET r1 == SeleniumProfile_switch_to_tab(o, name) IN
    IF Raised(r1) THEN r1 ELSE
    IF r1.o.windows = {} THEN R(r1.o, "raised", "InvalidSessionIdException") ELSE
    LET o2 == [driver_close(r1.o) EXCEPT !.tabs = remove(@, i)] IN
    SeleniumProfile_switch_to_tab(o2, o2.tabs[1].name)

SeleniumProfile_new_tab(o, name) ==
    IF o.driver_status # CLOSED
    THEN LET o1 == driver_new_window(o)
             tabs == Append(o1.tabs, Tab(name, o1.current, ACTIVE)) IN
         R([o1 EXCEPT !.tabs = [i \in DOMAIN tabs |->
                                    IF tabs[i].name # name
                                    THEN update_status(tabs[i], INACTIVE)
                                    ELSE tabs[i]]], "True", "")
    ELSE R(o, "False", "")

\* SeleniumProfile(driver_name, tab_name, profile_options, connection)
OpenSession(p, tab_name, launched) ==
    /\ ~heap[p].constructed
    /\ LET r == SeleniumProfile_init(NoProfile, "s1", tab_name, launched) IN
       IF Raised(r)
       THEN call' = Called("SeleniumProfile", 0, "s1", r.ret, r.err, <<>>) /\ UNCHANGED heap
       ELSE Invoke(p, "SeleniumProfile", tab_name, r)
    /\ UNCHANGED profiles

\* new_tab with a name no tab of the profile has yet.
LegacyNewTab(p, name, limit) ==
    /\ heap[p].constructed
    /\ heap[p].handles < limit
    /\ find(heap[p].tabs, name) = 0
    /\ Invoke(p, "new_tab", name, SeleniumProfile_new_tab(heap[p], name))
    /\ UNCHANGED profiles

SwitchToTab(p, name) ==
    /\ heap[p].constructed
    /\ Invoke(p, "switch_to_tab", name, SeleniumProfile_switch_to_tab(heap[p], name))
    /\ UNCHANGED profiles

LegacyCloseTab(p, name) ==
    /\ heap[p].constructed
    /\ Invoke(p, "close_tab", name, SeleniumProfile_close_tab(heap[p], name))
    /\ UNCHANGED profiles

CloseDriver(p) ==
    /\ heap[p].constructed
    /\ Invoke(p, "close_driver", "", SeleniumProfile_close_driver(heap[p]))
    /\ UNCHANGED profiles

NextLegacy ==
    \/ \E t \in TabNames, launched \in BOOLEAN : OpenSession(1, t, launched)
    \/ \E t \in MoreTabNames : LegacyNewTab(1, t, MaxTabHandles)
    \/ \E t \in MoreTabNames : SwitchToTab(1, t)
    \/ \E t \in MoreTabNames : LegacyCloseTab(1, t)
    \/ CloseDriver(1)

SpecLegacy == Init /\ [][NextLegacy]_vars

\* ------------------------------------------------------ concurrent callers
\* Two threads call one ProfileService, or one TabService. Neither class
\* holds a lock, so a thread may be preempted between any two statements; the
\* steps below end where a method waits for the driver. In these
\* specifications call maps each thread to the call it is in: the method and
\* its argument, the statement it has reached (pc) and its local variables
\* (p: the Profile, handle: a window handle, focus: the window a query runs
\* in, err: the exception its latest call ended with).
Callers == {"c1", "c2"}

Resting == [op |-> "", name |-> "", pc |-> "idle", p |-> 0, handle |-> 0, focus |-> 0, err |-> ""]

At(op, name, pc, p, handle, focus) ==
    [op |-> op, name |-> name, pc |-> pc, p |-> p, handle |-> handle, focus |-> focus, err |-> ""]

Ended(op, name, p, err) ==
    [op |-> op, name |-> name, pc |-> "idle", p |-> p, handle |-> 0, focus |-> 0, err |-> err]

Quiescent == \A t \in Callers : call[t].pc = "idle"

InitCallers ==
    /\ profiles = [n \in DriverNames |-> 0]
    /\ heap = [p \in Objects |-> NoProfile]
    /\ call = [t \in Callers |-> Resting]

\* new_profile up to the construction: "if driver_name in self.profiles".
\* A thread only starts a construction an object is left for.
NewProfileLookup(t, driver_name) ==
    /\ call[t].pc = "idle"
    /\ IF profiles[driver_name] # 0
       THEN call' = [call EXCEPT ![t] = Ended("new_profile", driver_name, profiles[driver_name], "")]
       ELSE /\ Cardinality({p \in Objects : ~heap[p].constructed})
                 > Cardinality({u \in Callers : call[u].pc = "construct"})
            /\ call' = [call EXCEPT ![t] = At("new_profile", driver_name, "construct", 0, 0, 0)]
    /\ UNCHANGED <<profiles, heap>>

\* "profile = Profile(...)": the driver is launched and the first tab opened.
NewProfileConstruct(t, tab_name, connection) ==
    /\ call[t].pc = "construct"
    /\ Fresh # 0
    /\ LET r == Profile_init(NoProfile, call[t].name, tab_name, connection) IN
       IF Raised(r)
       THEN /\ call' = [call EXCEPT ![t] = Ended("new_profile", call[t].name, 0, r.err)]
            /\ UNCHANGED heap
       ELSE /\ heap' = [heap EXCEPT ![Fresh] = Reset(r.o)]
            /\ call' = [call EXCEPT ![t] = At("new_profile", call[t].name, "store", Fresh, 0, 0)]
    /\ UNCHANGED profiles

\* "self.profiles[driver_name] = profile; return profile"
NewProfileStore(t) ==
    /\ call[t].pc = "store"
    /\ profiles' = [profiles EXCEPT ![call[t].name] = call[t].p]
    /\ call' = [call EXCEPT ![t] = Ended("new_profile", call[t].name, call[t].p, "")]
    /\ UNCHANGED heap

\* "profile = self.profiles.get(driver_name); if profile:"
RemoveProfileLookup(t, driver_name) ==
    /\ call[t].pc = "idle"
    /\ call' = [call EXCEPT ![t] =
                    IF profiles[driver_name] # 0
                    THEN At("remove_profile", driver_name, "close", profiles[driver_name], 0, 0)
                    ELSE Ended("remove_profile", driver_name, 0, "")]
    /\ UNCHANGED <<profiles, heap>>

\* "profile.close()"
RemoveProfileClose(t) ==
    /\ call[t].pc = "close"
    /\ heap' = [heap EXCEPT ![call[t].p] = Reset(Profile_close(heap[call[t].p]).o)]
    /\ call' = [call EXCEPT ![t].pc = "del"]
    /\ UNCHANGED profiles

\* "del self.profiles[driver_name]": KeyError when the key is gone, and
\* whatever Profile the key holds by now is dropped.
RemoveProfileDel(t) ==
    /\ call[t].pc = "del"
    /\ IF profiles[call[t].name] = 0
       THEN /\ call' = [call EXCEPT ![t] = Ended("remove_profile", call[t].name, call[t].p, "KeyError")]
            /\ UNCHANGED profiles
       ELSE /\ profiles' = [profiles EXCEPT ![call[t].name] = 0]
            /\ call' = [call EXCEPT ![t] = Ended("remove_profile", call[t].name, call[t].p, "")]
    /\ UNCHANGED heap

NextRegistryRace ==
    \/ \E t \in Callers, n \in DriverNames : NewProfileLookup(t, n)
    \/ \E t \in Callers :
            NewProfileConstruct(t, "t1", Conn("chrome", "exists", "", "ok"))
    \/ \E t \in Callers :
            NewProfileConstruct(t, "t1", Conn("chrome", "exists", "", "WebDriverException"))
    \/ \E t \in Callers : NewProfileStore(t)
    \/ \E t \in Callers, n \in DriverNames : RemoveProfileLookup(t, n)
    \/ \E t \in Callers : RemoveProfileClose(t)
    \/ \E t \in Callers : RemoveProfileDel(t)

SpecRegistryRace == InitCallers /\ [][NextRegistryRace]_vars

\* The one session the threads of the tab specification share.
Shared == 1

\* A thread's step on the shared session: o is the session after it, c the
\* thread's call record after it.
Stepped(t, o, c) ==
    /\ heap' = [heap EXCEPT ![Shared] = Reset(o)]
    /\ call' = [call EXCEPT ![t] = c]
    /\ UNCHANGED profiles

\* Profile(...), before either thread calls.
StartSession(connection) ==
    /\ ~heap[Shared].constructed
    /\ Quiescent
    /\ LET r == Profile_init(NoProfile, "s1", "t1", connection) IN
       /\ ~Raised(r)
       /\ heap' = [heap EXCEPT ![Shared] = Reset(r.o)]
    /\ UNCHANGED <<profiles, call>>

\* new_tab up to "handle = self.session.new_tab()", with a name that no tab
\* has and no other thread is registering.
NewTabOpen(t, name) ==
    /\ call[t].pc = "idle"
    /\ heap[Shared].constructed
    /\ heap[Shared].handles < MaxTabHandles
    /\ find(heap[Shared].tabs, name) = 0
    /\ \A u \in Callers : ~(call[u].pc = "register" /\ call[u].name = name)
    /\ LET o == heap[Shared] IN
       IF o.driver_status = CLOSED THEN Stepped(t, o, Ended("new_tab", name, 0, "")) ELSE
       LET r == Session_new_tab(o) IN
       IF Raised(r) THEN Stepped(t, r.o, Ended("new_tab", name, 0, r.err))
       ELSE Stepped(t, r.o, At("new_tab", name, "register", 0, r.o.current, 0))

\* "for t in self.tabs: t.update_status(INACTIVE)" and the append.
NewTabRegister(t) ==
    /\ call[t].pc = "register"
    /\ LET o == heap[Shared]
           tabs == [i \in DOMAIN o.tabs |-> update_status(o.tabs[i], INACTIVE)] IN
       Stepped(t, [o EXCEPT !.tabs = Append(tabs, Tab(call[t].name, call[t].handle, ACTIVE))],
               Ended("new_tab", call[t].name, 0, ""))

\* switch_to up to "self.session.switch_tab(tab.window_handle)".
SwitchToFocus(t, name) ==
    /\ call[t].pc = "idle"
    /\ heap[Shared].constructed
    /\ LET o == heap[Shared]
           i == find(o.tabs, name) IN
       IF i = 0 THEN Stepped(t, o, Ended("switch_to", name, 0, "")) ELSE
       LET r == Session_switch_tab(o, o.tabs[i].window_handle) IN
       IF Raised(r) THEN Stepped(t, r.o, Ended("switch_to", name, 0, r.err))
       ELSE Stepped(t, r.o, At("switch_to", name, "update", 0, 0, 0))

\* "for t in self.tabs: t.update_status(ACTIVE if t.name == name else INACTIVE)"
SwitchToUpdate(t) ==
    /\ call[t].pc = "update"
    /\ LET o == heap[Shared] IN
       Stepped(t, [o EXCEPT !.tabs = [i \in DOMAIN o.tabs |->
                                         update_status(o.tabs[i],
                                             IF o.tabs[i].name = call[t].name
                                             THEN ACTIVE ELSE INACTIVE)]],
               Ended(call[t].op, call[t].name, 0, ""))

\* close_tab up to "self.session.close_tab(tab.window_handle)"; the last tab
\* is closed by close_all.
CloseTabClose(t, name) ==
    /\ call[t].pc = "idle"
    /\ heap[Shared].constructed
    /\ LET o == heap[Shared]
           i == find(o.tabs, name) IN
       IF i = 0 THEN Stepped(t, o, Ended("close_tab", name, 0, "")) ELSE
       IF Len(o.tabs) = 1
       THEN Stepped(t, TabService_close_all(o).o, Ended("close_tab", name, 0, "")) ELSE
       LET r == Session_close_tab(o, o.tabs[i].window_handle) IN
       IF Raised(r) THEN Stepped(t, r.o, Ended("close_tab", name, 0, r.err))
       ELSE Stepped(t, r.o, At("close_tab", name, "remove", 0, o.tabs[i].window_handle, 0))

\* "self.tabs.remove(tab)" (ValueError when the tab is gone), then
\* "self.switch_to(self.tabs[0].name)" (IndexError on an empty list) up to
\* its session.switch_tab.
CloseTabRemove(t) ==
    /\ call[t].pc = "remove"
    /\ LET o == heap[Shared]
           at == {i \in DOMAIN o.tabs : o.tabs[i].window_handle = call[t].handle} IN
       IF at = {} THEN Stepped(t, o, Ended("close_tab", call[t].name, 0, "ValueError")) ELSE
       LET o2 == [o EXCEPT !.tabs = remove(@, CHOOSE i \in at : \A j \in at : i <= j)] IN
       IF o2.tabs = <<>> THEN Stepped(t, o2, Ended("close_tab", call[t].name, 0, "IndexError")) ELSE
       LET first == o2.tabs[1].name
           r == Session_switch_tab(o2, o2.tabs[find(o2.tabs, first)].window_handle) IN
       IF Raised(r) THEN Stepped(t, r.o, Ended("close_tab", call[t].name, 0, r.err))
       ELSE Stepped(t, r.o, At("close_tab", first, "update", 0, 0, 0))

\* An element query without root_handle starts polling in the focused window.
QueryBegin(t) ==
    /\ call[t].pc = "idle"
    /\ heap[Shared].constructed
    /\ heap[Shared].driver = "live"
    /\ Stepped(t, heap[Shared], At("find_element", "", "query", 0, 0, heap[Shared].current))

\* The query's last poll.
QueryEnd(t) ==
    /\ call[t].pc = "query"
    /\ Stepped(t, heap[Shared], Ended("find_element", "", 0, ""))

NextTabRace ==
    \/ StartSession(Conn("chrome", "exists", "", "ok"))
    \/ \E t \in Callers, n \in TabNames : NewTabOpen(t, n)
    \/ \E t \in Callers : NewTabRegister(t)
    \/ \E t \in Callers, n \in TabNames : SwitchToFocus(t, n)
    \/ \E t \in Callers : SwitchToUpdate(t)
    \/ \E t \in Callers, n \in TabNames : CloseTabClose(t, n)
    \/ \E t \in Callers : CloseTabRemove(t)
    \/ \E t \in Callers : QueryBegin(t)
    \/ \E t \in Callers : QueryEnd(t)

SpecTabRace == InitCallers /\ [][NextTabRace]_vars

\* ---------------------------------------------------------------- Connector
\* A caller of the connector: the call record keeps the arguments next to
\* the outcome, the webdriver calls made and the creators invoked.
Created(op, browser_type, options, connection, m, invoked) ==
    [op |-> op, p |-> 0, name |-> browser_type,
     ret |-> IF m.result = "driver" THEN "driver" ELSE "raised",
     err |-> IF m.result = "driver" THEN "" ELSE m.result,
     cmds |-> m.webdriver,
     options |-> options, connection |-> connection, invoked |-> invoked]

\* BrowserFactory().create_browser(browser_type, options, connection)
CreateBrowser(browser_type, options, connection) ==
    /\ LET m == create_browser(browser_type, options, connection) IN
       call' = Created("create_browser", browser_type, options, connection, m, m.invoked)
    /\ UNCHANGED <<profiles, heap>>

\* DriverCreator.create_chrome_driver / create_firefox_driver /
\* create_remote_driver (options, connection), called directly.
CreateDriver(method, options, connection) ==
    /\ call' = Created(method, "", options, connection,
                       creator(method, options, connection), <<>>)
    /\ UNCHANGED <<profiles, heap>>

\* The connection dicts passed to the connector itself: the factory takes the
\* kind as an argument of its own and reads no 'browser_type' key.
FactoryConnections == {c \in Connections : c.browser_type = NoKey}

NextConnector ==
    \/ \E k \in KindStrings, o \in Options, c \in FactoryConnections :
            CreateBrowser(k, o, c)
    \/ \E k \in DOMAIN driver_map, o \in Options, c \in FactoryConnections :
            CreateDriver(driver_map[k], o, c)

SpecConnector == Init /\ [][NextConnector]_vars

\* ================================================================ claims
\* Helpers of the formulas below.
ActiveCount(tabs) == Cardinality({i \in DOMAIN tabs : tabs[i].status = ACTIVE})

\* The calls of TabService.
TabServiceCalls == {"new_tab", "switch_to", "close_tab", "close_all", "delete_cookies"}

\* The names and statuses of a tab list, in order.
View(tabs) == [i \in DOMAIN tabs |-> <<tabs[i].name, tabs[i].status>>]

\* C1: in every state reached by start, new_tab, switch_to and close_tab with
\* any names, a non-empty tab list has exactly one ACTIVE tab, and a CLOSED
\* TabService has an empty tab list.
C1_SingleActiveTab ==
    \A p \in Objects :
        heap[p].constructed =>
            /\ heap[p].tabs # <<>> => ActiveCount(heap[p].tabs) = 1
            /\ heap[p].driver_status = CLOSED => heap[p].tabs = <<>>

\* C2: new_profile with a registered driver_name returns the registered
\* Profile object, whatever the other arguments are, and changes nothing: no
\* driver command, no tab, no status, no registry entry.
C2_NewProfileIdempotent ==
    [][\A n \in DriverNames :
          (call'.op = "new_profile" /\ call'.name = n /\ profiles[n] # 0) =>
              /\ call'.ret = "Profile"
              /\ call'.p = profiles[n]
              /\ call'.cmds = <<>>
              /\ heap' = heap
              /\ profiles' = profiles]_vars

\* A repeated new_profile has returned a registered Profile that has a tab.
C2_Witness ==
    /\ call.op = "new_profile"
    /\ call.ret = "Profile"
    /\ call.cmds = <<>>
    /\ profiles[call.name] = call.p
    /\ heap[call.p].tabs # <<>>
    /\ \E n \in DriverNames : n # call.name /\ profiles[n] # 0

\* C3: close_tab of the only registered tab quits the driver, empties the tab
\* list and sets driver_status to CLOSED, with no window-level command.
C3_CloseLastTabClosesSession ==
    [][\A p \in Objects, t \in MoreTabNames :
          (/\ call'.op = "close_tab" /\ call'.p = p /\ call'.name = t
           /\ Len(heap[p].tabs) = 1 /\ heap[p].tabs[1].name = t) =>
              /\ call'.ret = "None"
              /\ call'.cmds = (IF heap[p].driver = "live" THEN <<Cmd("quit", 0)>> ELSE <<>>)
              /\ heap'[p].driver = "None"
              /\ heap'[p].windows = {}
              /\ heap'[p].quits = 1
              /\ heap'[p].tabs = <<>>
              /\ heap'[p].driver_status = CLOSED]_vars

\* close_tab has just closed a session through its last tab.
C3_Witness ==
    /\ call.op = "close_tab"
    /\ call.cmds = <<Cmd("quit", 0)>>
    /\ heap[call.p].driver_status = CLOSED
    /\ heap[call.p].tabs = <<>>

\* C4: on a Profile whose calls so far are exactly the first k steps of
\* start(t1), new_tab(t2), switch_to(t1), close_tab(t2), close_tab(t1), the
\* tab list and the session status are the ones the scenario lists.
C4_Scenario ==
    \A p \in Objects :
        LET o == heap[p] IN
        /\ o.script = 1 => View(o.tabs) = << <<"t1", ACTIVE>> >> /\ o.driver_status = OPEN
        /\ o.script = 2 => View(o.tabs) = << <<"t1", INACTIVE>>, <<"t2", ACTIVE>> >>
                           /\ o.driver_status = OPEN
        /\ o.script = 3 => View(o.tabs) = << <<"t1", ACTIVE>>, <<"t2", INACTIVE>> >>
                           /\ o.driver_status = OPEN
        /\ o.script = 4 => View(o.tabs) = << <<"t1", ACTIVE>> >>
                           /\ o.driver_status = OPEN /\ o.driver = "live"
        /\ o.script = 5 => o.tabs = <<>> /\ o.driver_status = CLOSED /\ o.driver = "None"

\* The scenario has run to its last step.
C4_Witness == \E p \in Objects : heap[p].script = 5

\* C5: new_tab with a name that is already registered returns False, sends
\* the driver nothing and leaves the tab list as it was.
C5_DuplicateNewTabIsNoOp ==
    [][\A p \in Objects, t \in MoreTabNames :
          (/\ call'.op = "new_tab" /\ call'.p = p /\ call'.name = t
           /\ find(heap[p].tabs, t) # 0) =>
              /\ call'.ret = "False"
              /\ call'.cmds = <<>>
              /\ heap'[p].tabs = heap[p].tabs]_vars

\* C6: new_tab on an open session returns True, sends the driver exactly one
\* new_window, appends the new tab last with the new window's handle, and
\* leaves it the only ACTIVE tab: every earlier tab is INACTIVE and keeps its
\* place, name and handle.
C6_NewTabAppendsTheOnlyActiveTab ==
    [][\A p \in Objects, t \in MoreTabNames :
          (/\ call'.op = "new_tab" /\ call'.p = p /\ call'.name = t
           /\ heap[p].driver_status = OPEN) =>
              LET old == heap[p].tabs
                  new == heap'[p].tabs
              IN
              /\ call'.ret = "True"
              /\ Len(call'.cmds) = 1
              /\ call'.cmds[1].cmd = "new_window"
              /\ call'.cmds[1].h \notin heap[p].windows
              /\ heap'[p].windows = heap[p].windows \cup {call'.cmds[1].h}
              /\ Len(new) = Len(old) + 1
              /\ new[Len(new)] = Tab(t, call'.cmds[1].h, ACTIVE)
              /\ \A i \in DOMAIN old :
                    /\ new[i].name = old[i].name
                    /\ new[i].window_handle = old[i].window_handle
                    /\ new[i].status = INACTIVE
              /\ ActiveCount(new) = 1]_vars

\* new_tab has returned True on a session that already had two tabs.
C6_Witness ==
    /\ call.op = "new_tab"
    /\ call.ret = "True"
    /\ Len(heap[call.p].tabs) = 3
    /\ heap[call.p].tabs[3].status = ACTIVE

\* C7: on a TabService whose driver_status is CLOSED every call returns
\* without raising (new_tab False, the others None), sends the driver
\* nothing, and leaves the tab list empty and the status CLOSED.
C7_ClosedCallsAreNoOps ==
    [][\A p \in Objects :
          (/\ heap[p].constructed /\ heap[p].driver_status = CLOSED
           /\ call'.p = p /\ call'.op \in TabServiceCalls) =>
              /\ call'.ret = (IF call'.op = "new_tab" THEN "False" ELSE "None")
              /\ call'.cmds = <<>>
              /\ heap'[p].tabs = <<>>
              /\ heap'[p].driver_status = CLOSED
              /\ heap'[p].driver = "None"]_vars

\* delete_cookies has returned on a CLOSED TabService.
C7_Witness ==
    /\ call.op = "delete_cookies"
    /\ call.ret = "None"
    /\ heap[call.p].driver_status = CLOSED
    /\ heap[call.p].tabs = <<>>

\* C8: close_tab of a registered tab, when two or more tabs exist, sends the
\* driver window(h), close, window(first remaining), closes no other window,
\* removes the record keeping the order of the others, and leaves the first
\* remaining tab the only ACTIVE one.
C8_CloseTabActivatesFirstRemaining ==
    [][\A p \in Objects, t \in MoreTabNames :
          (/\ call'.op = "close_tab" /\ call'.p = p /\ call'.name = t
           /\ find(heap[p].tabs, t) # 0 /\ Len(heap[p].tabs) >= 2) =>
              LET old == heap[p].tabs
                  i == find(old, t)
                  h == old[i].window_handle
                  rest == remove(old, i)
                  new == heap'[p].tabs
              IN
              /\ call'.cmds = <<Cmd("window", h), Cmd("close", h),
                                Cmd("window", rest[1].window_handle)>>
              /\ heap'[p].windows = heap[p].windows \ {h}
              /\ heap'[p].current = rest[1].window_handle
              /\ Len(new) = Len(rest)
              /\ \A k \in DOMAIN rest :
                    /\ new[k].name = rest[k].name
                    /\ new[k].window_handle = rest[k].window_handle
                    /\ new[k].status = (IF k = 1 THEN ACTIVE ELSE INACTIVE)]_vars

\* C9: after any close_all the driver has been quit exactly once, its handle
\* is None, the tab list is empty and driver_status is CLOSED; a close_all on
\* a CLOSED TabService sends the driver nothing and changes none of these.
C9_CloseAllIdempotent ==
    [][\A p \in Objects :
          (call'.op = "close_all" /\ call'.p = p) =>
              /\ call'.ret = "None"
              /\ heap'[p].quits = 1
              /\ heap'[p].driver = "None"
              /\ heap'[p].tabs = <<>>
              /\ heap'[p].driver_status = CLOSED
              /\ heap[p].driver_status = CLOSED =>
                    /\ call'.cmds = <<>>
                    /\ heap'[p] = [heap[p] EXCEPT !.script = 0]]_vars

\* close_all has returned on a TabService that was CLOSED before the call.
C9_Witness ==
    /\ call.op = "close_all"
    /\ call.cmds = <<>>
    /\ heap[call.p].driver_status = CLOSED
    /\ heap[call.p].quits = 1

\* C10: remove_profile of a registered name closes that Profile's driver and
\* evicts the entry and no other; get_profile of an unregistered name returns
\* None; new_profile of an unregistered name registers a Profile object that
\* did not exist before; remove_profile of an unregistered name returns None
\* and changes nothing.
C10_RemoveProfile ==
    [][\A n \in DriverNames :
          /\ (call'.op = "remove_profile" /\ call'.name = n /\ profiles[n] # 0) =>
                /\ call'.ret = "None"
                /\ profiles' = [profiles EXCEPT ![n] = 0]
                /\ heap'[profiles[n]].driver = "None"
                /\ heap'[profiles[n]].windows = {}
                /\ heap'[profiles[n]].quits = 1
                /\ heap[profiles[n]].driver = "live" => call'.cmds = <<Cmd("quit", 0)>>
          /\ (call'.op = "remove_profile" /\ call'.name = n /\ profiles[n] = 0) =>
                /\ call'.ret = "None"
                /\ call'.cmds = <<>>
                /\ profiles' = profiles
                /\ heap' = heap
          /\ (call'.op = "get_profile" /\ call'.name = n /\ profiles[n] = 0) =>
                call'.ret = "None"
          /\ (call'.op = "new_profile" /\ call'.name = n /\ profiles[n] = 0
              /\ call'.ret = "Profile") =>
                /\ ~heap[call'.p].constructed
                /\ heap'[call'.p].constructed
                /\ heap'[call'.p].driver = "live"
                /\ heap'[call'.p].driver_status = OPEN
                /\ profiles'[n] = call'.p]_vars

\* A name was removed and registered again: its first Profile is closed and
\* the registry holds a second, open one.
C10_Witness ==
    \E n \in DriverNames, p, q \in Objects :
        /\ p # q
        /\ heap[p].constructed /\ heap[p].driver_name = n
        /\ heap[p].profile_status = CLOSED /\ heap[p].driver = "None"
        /\ heap[q].constructed /\ heap[q].driver_name = n
        /\ profiles[n] = q
        /\ heap[q].driver = "live"
        /\ call.op = "new_profile" /\ call.p = q

\* C11: after Profile.close() or remove_profile(name) the Profile's
\* tab_service has an empty tab list and no ACTIVE tab, and a later
\* tab_service.new_tab returns False (switch_to and close_tab return None)
\* instead of raising.
C11_ClosedProfileHasNoTabs ==
    \A p \in Objects :
        (heap[p].constructed /\ heap[p].profile_status = CLOSED) =>
            /\ heap[p].tabs = <<>>
            /\ ActiveCount(heap[p].tabs) = 0
            /\ (call.p = p /\ call.op = "new_tab") => call.ret = "False"
            /\ (call.p = p /\ call.op \in {"switch_to", "close_tab"}) => call.ret = "None"

\* The eight strategies of the specification.
EightStrategies ==
    {"id", "xpath", "link text", "partial link text", "name", "tag name",
     "class name", "css selector"}

\* C12: Locator(by, value) succeeds exactly when by is one of the eight
\* strategies; otherwise it raises ValueError and no Locator exists, so every
\* Locator that reaches find_element / find_elements carries a valid
\* strategy; as_tuple returns (by, value) unchanged.
C12_LocatorValidatesStrategy ==
    /\ call.op = "Locator" =>
          /\ (call.by \in EightStrategies) <=> (call.ret = "Locator")
          /\ call.ret = "Locator" =>
                /\ call.self.exists
                /\ call.as_tuple = <<call.by, call.value>>
          /\ call.by \notin EightStrategies =>
                /\ call.ret = "raised"
                /\ call.err = "ValueError"
                /\ ~call.self.exists
    /\ call.op \in ResolverCalls => call.locator[1] \in EightStrategies

\* Locator('ID', ...) has raised ValueError.
C12_Witness ==
    /\ call.op = "Locator"
    /\ call.by = "ID"
    /\ call.ret = "raised"
    /\ call.err = "ValueError"

\* The table keys of the connector with the spellings of each, the creator
\* each one names, and the webdriver constructors.
CaseVariants ==
    [chrome |-> {"chrome", "Chrome", "CHROME"},
     firefox |-> {"firefox", "FireFox"},
     remote |-> {"remote", "REMOTE"}]

CreatorOf ==
    [chrome |-> "create_chrome_driver", firefox |-> "create_firefox_driver",
     remote |-> "create_remote_driver"]

Constructors == {"webdriver.Chrome", "webdriver.Firefox", "webdriver.Remote"}

Launches(webdriver) ==
    Cardinality({i \in DOMAIN webdriver : webdriver[i] \in Constructors})

\* The creator a connector call reaches, "" when the kind is in no table row.
Reached(c) ==
    IF c.op = "create_browser"
    THEN IF \E k \in DOMAIN CaseVariants : c.name \in CaseVariants[k]
         THEN CreatorOf[CHOOSE k \in DOMAIN CaseVariants : c.name \in CaseVariants[k]]
         ELSE ""
    ELSE c.op

ConnectorCalls ==
    {"create_browser", "create_chrome_driver", "create_firefox_driver",
     "create_remote_driver"}

\* The arguments of a connector call fail validation.
ValidationFails(c) ==
    \/ Reached(c) = ""
    \/ Reached(c) \in {"create_chrome_driver", "create_firefox_driver"}
       /\ c.connection.binary_path \in {"", "missing"}
    \/ Reached(c) = "create_remote_driver" /\ c.connection.remote_url = ""

\* C13: create_browser with any spelling of a table key invokes that key's
\* creator exactly once, with the caller's options and connection unchanged,
\* and returns or raises what the creator does; with any other kind it
\* raises BrowserInitializationError and invokes no creator.
C13_FactoryDispatch ==
    call.op = "create_browser" =>
        /\ \A k \in DOMAIN CaseVariants :
              call.name \in CaseVariants[k] =>
                  LET m == creator(CreatorOf[k], call.options, call.connection) IN
                  /\ call.invoked = <<Invoked(CreatorOf[k], call.options, call.connection)>>
                  /\ call.ret = (IF m.result = "driver" THEN "driver" ELSE "raised")
                  /\ call.err = (IF m.result = "driver" THEN "" ELSE m.result)
                  /\ call.cmds = m.webdriver
        /\ (\A k \in DOMAIN CaseVariants : call.name \notin CaseVariants[k]) =>
              /\ call.ret = "raised"
              /\ call.err = "BrowserInitializationError"
              /\ call.invoked = <<>>
              /\ call.cmds = <<>>

\* create_browser('CHROME', ...) has returned the Chrome creator's driver.
C13_Witness ==
    /\ call.op = "create_browser"
    /\ call.name = "CHROME"
    /\ call.ret = "driver"
    /\ Len(call.invoked) = 1
    /\ call.invoked[1].creator = "create_chrome_driver"
    /\ call.options = "--start-maximized"

\* C14: create_chrome_driver and create_firefox_driver with a binary_path
\* that names no file fail with DriverNotFoundError, and create_remote_driver
\* with an empty remote_url fails with BrowserConfigError, not with
\* BrowserInitializationError.
C14_ValidationErrorsKeepTheirType ==
    /\ (/\ call.op \in {"create_chrome_driver", "create_firefox_driver"}
        /\ call.connection.binary_path = "missing") =>
            call.ret = "raised" /\ call.err = "DriverNotFoundError"
    /\ (call.op = "create_remote_driver" /\ call.connection.remote_url = "") =>
            call.ret = "raised" /\ call.err = "BrowserConfigError"

\* C15: a connector call attempts the browser launch zero times when its
\* arguments fail validation (empty or missing binary_path, empty remote_url,
\* unknown kind) and exactly once otherwise; a launch that fails is reported
\* by one raised error and is not attempted again.
C15_LaunchAtMostOnce ==
    call.op \in ConnectorCalls =>
        /\ ValidationFails(call) => Launches(call.cmds) = 0 /\ call.ret = "raised"
        /\ ~ValidationFails(call) => Launches(call.cmds) = 1
        /\ (~ValidationFails(call) /\ call.connection.launch # "ok") =>
              call.ret = "raised" /\ call.cmds = <<call.cmds[1]>>

\* A launch through the factory failed and was reported after one attempt.
C15_Witness ==
    /\ call.op = "create_browser"
    /\ call.name = "FireFox"
    /\ call.connection.launch = "SessionNotCreatedException"
    /\ call.ret = "raised"
    /\ call.cmds = <<"webdriver.Firefox">>

\* C16: create_browser, for every kind string and every outcome of the
\* launch, returns a driver or raises BrowserInitializationError,
\* DriverNotFoundError or BrowserConfigError, and nothing else.
C16_OnlyTypedErrorsLeave ==
    call.op = "create_browser" =>
        \/ call.ret = "driver"
        \/ /\ call.ret = "raised"
           /\ call.err \in {"BrowserInitializationError", "DriverNotFoundError",
                            "BrowserConfigError"}

\* A launch raised an exception that is no driver error and the factory
\* raised a typed error.
C16_Witness ==
    /\ call.op = "create_browser"
    /\ call.connection.launch = "OSError"
    /\ ~ValidationFails(call)
    /\ call.ret = "raised"
    /\ call.err = "BrowserInitializationError"

\* The polls a resolver call has made: its queries of the document or of
\* the root element.
Polls(c) == {i \in DOMAIN c.cmds : c.cmds[i].cmd \notin {"scrollIntoView", "window"} \cup ElementServiceCalls}

\* The condition of an unscoped call holds in what its latest poll saw.
Satisfied(c) ==
    CASE c.op = "find_elements" -> c.obs \in {"present", "visible", "clickable"}
      [] c.op # "find_elements" /\ c.condition = "presence_of_element_located" ->
            c.obs \in {"present", "visible", "clickable"}
      [] c.op # "find_elements" /\ c.condition = "visibility_of_element_located" ->
            c.obs \in {"visible", "clickable"}
      [] c.op # "find_elements" /\ c.condition = "element_to_be_clickable" ->
            c.obs = "clickable"

\* An unscoped find_element / find_elements on a live session, with a
\* condition of WaitCondition, whose latest poll the driver answered.
UnscopedOnLive(c) ==
    /\ c.op \in {"find_element", "find_elements"}
    /\ ~c.root_element.given
    /\ heap[c.p].driver = "live"
    /\ c.op = "find_element" => c.condition \in WaitConditions
    /\ c.obs # "crash"

\* C17: an unscoped find_element / find_elements on a live session ends by
\* its deadline: it never polls after the timeout, returns the element at
\* the first poll that finds the condition true, returns None (find_elements
\* an empty list) when the last poll before the deadline does not, never
\* raises the timeout error, and never stays in the wait.
C17_UnscopedResolutionEndsByDeadline ==
    /\ [](UnscopedOnLive(call) =>
            /\ call.clock <= call.timeout
            /\ Cardinality(Polls(call)) <= call.timeout + 1
            /\ call.ret # "raised"
            /\ Satisfied(call) =>
                  /\ call.ret = (IF call.op = "find_element" THEN "WebElement" ELSE "list")
                  /\ call.found # <<>>
            /\ (~Satisfied(call) /\ Cardinality(Polls(call)) = call.timeout + 1) =>
                  /\ call.ret = (IF call.op = "find_element" THEN "None" ELSE "list")
                  /\ call.found = <<>>
            /\ (~Satisfied(call) /\ Cardinality(Polls(call)) < call.timeout + 1) =>
                  call.ret = "pending")
    /\ (~Idle ~> Idle)

\* find_element has returned None after polling up to its deadline.
C17_Witness ==
    /\ call.op = "find_element"
    /\ UnscopedOnLive(call)
    /\ call.timeout = MaxTimeout
    /\ Cardinality(Polls(call)) = MaxTimeout + 1
    /\ call.ret = "None"

\* C18: with a root element, find_element issues exactly one query under the
\* root, whatever timeout and condition are, and returns the element, or
\* None when the locator matches nothing under the root; find_elements
\* issues one query and returns the possibly empty list.
C18_ScopedResolutionIsOneQuery ==
    (/\ call.op \in {"find_element", "find_elements"}
     /\ call.root_element.given
     /\ heap[call.p].driver = "live") =>
        /\ Cardinality(Polls(call)) = 1
        /\ call.cmds[1].cmd = (IF call.op = "find_element"
                               THEN "root_element.find_element"
                               ELSE "root_element.find_elements")
        /\ call.op = "find_element" =>
              call.ret = (IF call.root_element.matches = 0 THEN "None" ELSE "WebElement")
        /\ call.op = "find_elements" =>
              call.ret = "list" /\ Len(call.found) = call.root_element.matches

\* C19: find_element with a condition that is no constant of WaitCondition
\* fails with an error and waits on no predicate.
C19_UnknownConditionFails ==
    (call.op = "find_element" /\ call.condition \notin WaitConditions) =>
        /\ call.ret = "raised"
        /\ Polls(call) = {}

\* C20: click, send_keys and clear act on the element at most once, and
\* only when resolution returned one; click resolves with
\* element_to_be_clickable, send_keys and clear with
\* presence_of_element_located; when resolution returns None the call
\* returns None without acting and without raising.
C20_ElementActionOnlyOnResolvedElement ==
    call.op \in ElementServiceCalls =>
        LET acts == {i \in DOMAIN call.cmds : call.cmds[i].cmd = call.op}
            waits == {i \in DOMAIN call.cmds : call.cmds[i].cmd \in WaitConditions}
        IN
        /\ Cardinality(acts) <= 1
        /\ (acts # {}) <=> (call.pc = "returned" /\ call.found # <<>>)
        /\ acts # {} => call.cmds[Len(call.cmds)] = Cmd(call.op, call.found[1])
        /\ \A i \in waits :
              call.cmds[i].cmd = (IF call.op = "click" THEN "element_to_be_clickable"
                                  ELSE "presence_of_element_located")
        /\ (call.pc = "returned" /\ call.found = <<>>) =>
              /\ call.ret = "None"
              /\ call.err = ""
              /\ acts = {}

\* click has clicked the element its third poll found clickable.
C20_Witness ==
    /\ call.op = "click"
    /\ call.ret = "None"
    /\ call.cmds = <<Cmd("element_to_be_clickable", 0), Cmd("element_to_be_clickable", 1),
                     Cmd("element_to_be_clickable", 2), Cmd("click", 1)>>

\* The error classes of utils/exceptions.py.
TypedErrors ==
    {"BrowserInitializationError", "TabManagementError", "DriverNotFoundError",
     "BrowserConfigError", "InvalidTabOperationError"}

\* C21: whatever the state of the session (never opened, live, closed) and
\* whatever the underlying query does, find_element and find_elements return
\* an element or a list, return the absent value, or raise a typed wrapper
\* error, never an exception of the driver library.
C21_NoRawDriverException ==
    (call.op \in {"find_element", "find_elements"} /\ call.ret = "raised") =>
        call.err \in TypedErrors

\* C24: on an open session reached by start, new_tab, switch_to, close_tab
\* and by click, send_keys and clear with or without root_handle, the window
\* the driver is focused on is the window_handle of the ACTIVE tab.
C24_FocusIsTheActiveTab ==
    \A p \in Objects :
        (/\ heap[p].constructed /\ heap[p].driver = "live"
         /\ heap[p].driver_status = OPEN /\ heap[p].tabs # <<>>) =>
            \E i \in DOMAIN heap[p].tabs :
                /\ heap[p].tabs[i].status = ACTIVE
                /\ heap[p].tabs[i].window_handle = heap[p].current

\* C25: switch_to and close_tab with a name that is not registered send the
\* driver nothing and leave the tab list, every status, driver_status, the
\* windows and the focus as they were.
C25_UnknownNameIsNoOp ==
    [][\A p \in Objects, t \in MoreTabNames :
          (/\ call'.op \in {"switch_to", "close_tab"} /\ call'.p = p /\ call'.name = t
           /\ find(heap[p].tabs, t) = 0) =>
              /\ call'.ret = "None"
              /\ call'.cmds = <<>>
              /\ heap'[p].tabs = heap[p].tabs
              /\ heap'[p].driver_status = heap[p].driver_status
              /\ heap'[p].driver = heap[p].driver
              /\ heap'[p].windows = heap[p].windows
              /\ heap'[p].current = heap[p].current
              /\ heap'[p].quits = heap[p].quits]_vars

\* close_tab of an unregistered name has returned on a session with two tabs.
C25_Witness ==
    /\ call.op = "close_tab"
    /\ call.p # 0
    /\ find(heap[call.p].tabs, call.name) = 0
    /\ Len(heap[call.p].tabs) = 2
    /\ heap[call.p].driver = "live"
    /\ call.cmds = <<>>

\* The window handles the registered tabs hold.
TabHandles(tabs) == {tabs[i].window_handle : i \in DOMAIN tabs}

\* C27: on an open session reached from start by new_tab, switch_to and
\* close_tab, the handles of the registered tabs are exactly the open windows
\* of the driver, and no two tabs share a handle.
C27_TabsAreTheWindows ==
    \A p \in Objects :
        (heap[p].constructed /\ heap[p].driver = "live" /\ heap[p].driver_status = OPEN) =>
            /\ TabHandles(heap[p].tabs) = heap[p].windows
            /\ Cardinality(TabHandles(heap[p].tabs)) = Len(heap[p].tabs)

\* C28: Profile.driver_status is CLOSED exactly when tab_service.driver_status
\* is CLOSED, and exactly when the session's driver handle is None.
C28_StatusFieldsAgree ==
    \A p \in Objects :
        heap[p].constructed =>
            /\ (heap[p].profile_status = CLOSED) <=> (heap[p].driver_status = CLOSED)
            /\ (heap[p].profile_status = CLOSED) <=> (heap[p].driver = "None")

\* C29: new_profile of an unregistered name either raises, leaving registry
\* and objects as they were (the name stays unregistered, so the next
\* new_profile builds again), or registers a Profile whose driver is live and
\* whose first tab exists; it never registers a half-built Profile.
C29_FailedCreationChangesNothing ==
    [][\A n \in DriverNames :
          (call'.op = "new_profile" /\ call'.name = n /\ profiles[n] = 0) =>
              /\ call'.ret \in {"raised", "Profile"}
              /\ call'.ret = "raised" =>
                    /\ call'.err # ""
                    /\ profiles' = profiles
              /\ call'.ret = "Profile" =>
                    /\ profiles'[n] = call'.p
                    /\ ~heap[call'.p].constructed
                    /\ heap'[call'.p].driver = "live"
                    /\ Len(heap'[call'.p].tabs) = 1]_vars

\* new_profile has raised for a name that another Profile does not hold, and
\* the name is still unregistered.
C29_Witness ==
    /\ call.op = "new_profile"
    /\ call.ret = "raised"
    /\ call.err = "BrowserInitializationError"
    /\ profiles[call.name] = 0
    /\ \E n \in DriverNames : profiles[n] # 0

\* C30: while a registered Profile's TabService is CLOSED, get_profile and
\* new_profile of its name return that Profile and send no driver command;
\* a name leaves the registry by remove_profile alone.
C30_ClosedSessionStaysRegistered ==
    [][\A n \in DriverNames :
          /\ (/\ profiles[n] # 0 /\ heap[profiles[n]].driver_status = CLOSED
              /\ call'.op \in {"get_profile", "new_profile"} /\ call'.name = n) =>
                /\ call'.ret = "Profile"
                /\ call'.p = profiles[n]
                /\ call'.cmds = <<>>
                /\ heap' = heap
                /\ profiles' = profiles
          /\ (profiles[n] # 0 /\ profiles'[n] # profiles[n]) =>
                call'.op = "remove_profile" /\ call'.name = n /\ profiles'[n] = 0]_vars

\* get_profile has returned a Profile that close_all or the close of its last
\* tab closed.
C30_Witness ==
    /\ call.op = "get_profile"
    /\ call.ret = "Profile"
    /\ heap[call.p].driver_status = CLOSED
    /\ heap[call.p].profile_status = OPEN
    /\ heap[call.p].quits = 1

\* C26: the legacy SeleniumProfile, with tabs of distinct names: while its
\* status is OPEN exactly one tab is ACTIVE and that tab holds the focused
\* window; once its status is CLOSED its tab list is empty.
C26_LegacyTabStateMachine ==
    \A p \in Objects :
        heap[p].constructed =>
            /\ heap[p].driver_status = OPEN =>
                  /\ ActiveCount(heap[p].tabs) = 1
                  /\ \E i \in DOMAIN heap[p].tabs :
                        /\ heap[p].tabs[i].status = ACTIVE
                        /\ heap[p].tabs[i].window_handle = heap[p].current
            /\ heap[p].driver_status = CLOSED => heap[p].tabs = <<>>

\* C22: with concurrent callers of new_profile and remove_profile, whenever
\* no call is in progress every live driver belongs to a Profile the registry
\* holds, and no name has more than one Profile with a live driver (one
\* Profile constructed, one driver launched, per registered name).
C22_RegistryIsThreadSafe ==
    Quiescent =>
        /\ \A p \in Objects :
              heap[p].driver = "live" => \E n \in DriverNames : profiles[n] = p
        /\ \A n \in DriverNames :
              Cardinality({p \in Objects : heap[p].driver = "live"
                                           /\ heap[p].driver_name = n}) <= 1

\* C23: with concurrent callers of new_tab, switch_to and close_tab on one
\* session, whenever no tab operation is in progress exactly one tab of the
\* open session is ACTIVE and it holds the focused window, and a query in
\* flight still has the focus it started with.
C23_TabOperationsAreSerialized ==
    /\ \A t \in Callers : call[t].pc = "query" => heap[Shared].current = call[t].focus
    /\ (/\ \A t \in Callers : call[t].pc \in {"idle", "query"}
        /\ heap[Shared].driver = "live"
        /\ heap[Shared].driver_status = OPEN) =>
            /\ ActiveCount(heap[Shared].tabs) = 1
            /\ \E i \in DOMAIN heap[Shared].tabs :
                  /\ heap[Shared].tabs[i].status = ACTIVE
                  /\ heap[Shared].tabs[i].window_handle = heap[Shared].current

====
